---------------------------- MODULE Spec2Model ----------------------------
(***************************************************************************)
(* Model of the ORB_SLAM3 -> Open3D trajectory converter                   *)
(* (scripts/02_convert_trajectory.py) and of the step sequencing of        *)
(* bin/run_pipeline.py.                                                    *)
(*                                                                         *)
(* Numbers.  The converter computes with IEEE doubles.  The model keeps   *)
(* every value as an exact fraction [n, d] in lowest terms with d > 0, and *)
(* keeps the one non-finite value the converter can produce, NaN = 0/0,    *)
(* as [n |-> 0, d |-> 0].  Rounding error of the double arithmetic is not *)
(* modelled; NaN propagation and the fixed 12-digit formatting are.        *)
(***************************************************************************)
EXTENDS Integers, Sequences, FiniteSets, TLC

VARIABLES
    tumFile,     \* the lines of the --input file, each a sequence of tokens
    cpc,         \* position of the converter's main()
    poses,       \* main(): poses, a sequence of [ts, T]
    stats,       \* main(): (duration, avg_fps) once computed
    graph,       \* save_pose_graph_json(): the in-memory pose_graph dict
    logFile,     \* the --output_log file on disk
    jsonFile,    \* the --output_json file on disk
    logOpened,   \* this run has opened the log file for writing
    jsonOpened,  \* this run has opened the pose-graph file for writing
    outcome,     \* how the converter run ended
    exitCode,    \* exit status of the converter process (-1 while running)
    runNo,       \* number of the current serializer run (SpecSer)
    prevRun,     \* poses and log bytes of the previous serializer run
    ppc,         \* position of run_pipeline's main()
    args,        \* run_pipeline: args.extract, args.start_step
    recon_mode,  \* config['reconstruction']['mode']
    framesExist, \* os.path.exists(frames_dir)
    trajExists,  \* os.path.exists(trajectory_tum)
    launched,    \* the commands run_command has launched, in order
    retcodes,    \* the return codes run_command has seen, in order
    pipeRet,     \* return value of run_pipeline's main() (-1 while running)
    association, \* create_associations: directory listings and output file
    intrinsics,  \* the camera, intrinsic.json and what the loaders read back
    logLoad,     \* a trajectory log and the results of its two loaders
    extraction,  \* extract_frames_from_bag: the bag, counters, saved files
    reconstruction \* step 4: frame lists, poses and the frames each script read

convVars == <<tumFile, cpc, poses, stats, graph, logFile, jsonFile,
              logOpened, jsonOpened, outcome, exitCode>>
serVars == <<runNo, prevRun>>
pipeVars == <<ppc, args, recon_mode, framesExist, trajExists, launched,
              retcodes, pipeRet>>
auxVars == <<association, intrinsics, logLoad, extraction, reconstruction>>
vars == <<tumFile, cpc, poses, stats, graph, logFile, jsonFile,
          logOpened, jsonOpened, outcome, exitCode, runNo, prevRun,
          ppc, args, recon_mode, framesExist, trajExists, launched,
          retcodes, pipeRet, association, intrinsics, logLoad, extraction,
          reconstruction>>

---------------------------------------------------------------------------
(* Bounds *)

MaxLines == 3

MaxSerPoses == 2

MaxRuns == 2

MaxPipeLines == 2

---------------------------------------------------------------------------
(* Exact fractions with NaN *)

Abs(x) == IF x < 0 THEN -x ELSE x

RECURSIVE GCD(_, _)
GCD(a, b) == IF b = 0 THEN a ELSE GCD(b, a % b)

NaN == [n |-> 0, d |-> 0]

IsNaN(x) == x.d = 0

\* the fraction p/q in lowest terms; q = 0 only arises as 0/0
Frac(p, q) ==
    IF q = 0 THEN NaN
    ELSE LET s == IF q < 0 THEN -1 ELSE 1
             g == GCD(Abs(p), Abs(q))
         IN  [n |-> (s * p) \div g, d |-> Abs(q) \div g]

Num(i) == [n |-> i, d |-> 1]

Zero == Num(0)

One == Num(1)

Add(x, y) == IF IsNaN(x) \/ IsNaN(y) THEN NaN
             ELSE Frac(x.n * y.d + y.n * x.d, x.d * y.d)

Neg(x) == IF IsNaN(x) THEN NaN ELSE [n |-> -x.n, d |-> x.d]

Sub(x, y) == Add(x, Neg(y))

Mul(x, y) == IF IsNaN(x) \/ IsNaN(y) THEN NaN
             ELSE Frac(x.n * y.n, x.d * y.d)

\* x / y with numpy scalar semantics: 0/0 is NaN (a RuntimeWarning, no
\* exception).  The converter only ever divides by a quaternion norm, which
\* is zero only when every component is zero, so x/0 with x # 0 never arises.
Div(x, y) == IF IsNaN(x) \/ IsNaN(y) \/ y.n = 0 THEN NaN
             ELSE Frac(x.n * y.d, x.d * y.n)

\* IEEE comparison: NaN equals nothing, itself included
NumEq(x, y) == ~IsNaN(x) /\ ~IsNaN(y) /\ x = y

---------------------------------------------------------------------------
(* 4x4 matrices: sequences of 4 rows of 4 numbers *)

Idx4 == 1..4

Eye4 == [i \in Idx4 |-> [j \in Idx4 |-> IF i = j THEN One ELSE Zero]]

NaNMatrix == [i \in Idx4 |-> [j \in Idx4 |-> NaN]]

HasNaN(M) == \E i \in Idx4, j \in Idx4 : IsNaN(M[i][j])

MatEq(A, B) == \A i \in Idx4, j \in Idx4 : NumEq(A[i][j], B[i][j])

\* A @ B
MatMul(A, B) ==
    [i \in Idx4 |-> [j \in Idx4 |->
        Add(Add(Mul(A[i][1], B[1][j]), Mul(A[i][2], B[2][j])),
            Add(Mul(A[i][3], B[3][j]), Mul(A[i][4], B[4][j])))]]

\* T.flatten(): the 16 entries in row-major order
Flatten(M) == [k \in 1..16 |-> M[((k - 1) \div 4) + 1][((k - 1) % 4) + 1]]

Det3(a) ==
    Add(Sub(Mul(a[1][1], Sub(Mul(a[2][2], a[3][3]), Mul(a[2][3], a[3][2]))),
            Mul(a[1][2], Sub(Mul(a[2][1], a[3][3]), Mul(a[2][3], a[3][1])))),
        Mul(a[1][3], Sub(Mul(a[2][1], a[3][2]), Mul(a[2][2], a[3][1]))))

\* M without row r and column c
Minor(M, r, c) ==
    [i \in 1..3 |-> [j \in 1..3 |->
        M[IF i < r THEN i ELSE i + 1][IF j < c THEN j ELSE j + 1]]]

Cofactor(M, r, c) ==
    IF (r + c) % 2 = 0 THEN Det3(Minor(M, r, c)) ELSE Neg(Det3(Minor(M, r, c)))

Det4(M) ==
    Add(Add(Mul(M[1][1], Cofactor(M, 1, 1)), Mul(M[1][2], Cofactor(M, 1, 2))),
        Add(Mul(M[1][3], Cofactor(M, 1, 3)), Mul(M[1][4], Cofactor(M, 1, 4))))

\* np.linalg.inv(M) for a finite M: err when M is singular (LinAlgError),
\* otherwise the exact inverse adj(M)/det(M)
InvFinite(M) ==
    LET det == Det4(M)
    IN  IF det.n = 0
        THEN [err |-> TRUE, M |-> NaNMatrix]
        ELSE [err |-> FALSE,
              M |-> [i \in Idx4 |-> [j \in Idx4 |-> Div(Cofactor(M, j, i), det)]]]

\* np.linalg.inv(M): the set of results the call can have.  On a matrix
\* holding NaN the LAPACK factorisation either returns an all-NaN matrix or
\* reports a zero pivot (LinAlgError), depending on the LAPACK build.
LinalgInv(M) ==
    IF HasNaN(M)
    THEN {[err |-> FALSE, M |-> NaNMatrix], [err |-> TRUE, M |-> NaNMatrix]}
    ELSE {InvFinite(M)}

---------------------------------------------------------------------------
(* quaternion_to_rotation_matrix / tum_to_matrix *)

\* variant: the quaternion is used without dividing by its norm
NormProd_Unnormalised(a, b, n2) == Num(a * b)

\* (a/norm)*(b/norm) with norm = sqrt(n2): exactly a*b/n2, and 0/0 = NaN
\* when the norm is zero
NormProd(a, b, n2) == Div(Num(a * b), Num(n2))

Two == Num(2)

\* the 3x3 rotation of the normalised quaternion (qx, qy, qz, qw)
quaternion_to_rotation_matrix(qx, qy, qz, qw) ==
    LET n2 == qx*qx + qy*qy + qz*qz + qw*qw
        xx == NormProd(qx, qx, n2)
        yy == NormProd(qy, qy, n2)
        zz == NormProd(qz, qz, n2)
        xy == NormProd(qx, qy, n2)
        xz == NormProd(qx, qz, n2)
        yz == NormProd(qy, qz, n2)
        wx == NormProd(qw, qx, n2)
        wy == NormProd(qw, qy, n2)
        wz == NormProd(qw, qz, n2)
    IN  << << Sub(One, Mul(Two, Add(yy, zz))), Mul(Two, Sub(xy, wz)),
              Mul(Two, Add(xz, wy)) >>,
           << Mul(Two, Add(xy, wz)), Sub(One, Mul(Two, Add(xx, zz))),
              Mul(Two, Sub(yz, wx)) >>,
           << Mul(Two, Sub(xz, wy)), Mul(Two, Add(yz, wx)),
              Sub(One, Mul(Two, Add(xx, yy))) >> >>

\* T = eye(4); T[:3,:3] = R; T[:3,3] = [tx, ty, tz]
tum_to_matrix(tx, ty, tz, qx, qy, qz, qw) ==
    LET R == quaternion_to_rotation_matrix(qx, qy, qz, qw)
        t == <<Num(tx), Num(ty), Num(tz)>>
    IN  [i \in Idx4 |-> [j \in Idx4 |->
            IF i <= 3 /\ j <= 3 THEN R[i][j]
            ELSE IF i <= 3 THEN t[i]
            ELSE Eye4[i][j]]]

---------------------------------------------------------------------------
(* The input file: lines of whitespace-separated tokens *)

\* a token that float() accepts, with its value
N(i) == [k |-> "num", v |-> i]

\* a token that float() rejects
Junk == [k |-> "junk", v |-> 0]

\* a token whose first character is '#'
Hash == [k |-> "hash", v |-> 0]

\* variant: lines of exactly 8 fields are skipped too
SkipLine_AtMost8(line) ==
    Len(line) = 0 \/ line[1].k = "hash" \/ Len(line) <= 8

\* line.strip() is empty, or starts with '#', or has fewer than 8 fields
SkipLine(line) == Len(line) = 0 \/ line[1].k = "hash" \/ Len(line) < 8

\* float(tok) returns
FloatOK(tok) == tok.k = "num"

\* variant: the eighth field is never parsed
LineRaises_First7(line) == \E k \in 1..7 : ~FloatOK(line[k])

\* one of the eight float(parts[k]) calls raises ValueError
LineRaises(line) == \E k \in 1..8 : ~FloatOK(line[k])

\* (timestamp, T) of a line whose first eight fields parse
LinePose(line) ==
    [ts |-> Num(line[1].v),
     T  |-> tum_to_matrix(line[2].v, line[3].v, line[4].v,
                          line[5].v, line[6].v, line[7].v, line[8].v)]

RECURSIVE LoadFrom(_, _, _)
LoadFrom(lines, k, acc) ==
    IF k > Len(lines) THEN [err |-> FALSE, at |-> 0, poses |-> acc]
    ELSE IF SkipLine(lines[k]) THEN LoadFrom(lines, k + 1, acc)
    ELSE IF LineRaises(lines[k]) THEN [err |-> TRUE, at |-> k, poses |-> <<>>]
    ELSE LoadFrom(lines, k + 1, Append(acc, LinePose(lines[k])))

\* the list load_tum_trajectory returns, or err when a float() raised
load_tum_trajectory(lines) == LoadFrom(lines, 1, <<>>)

---------------------------------------------------------------------------
(* f'{v:.12f}' *)

\* the first k decimal digits of r/d, for 0 <= r < d
RECURSIVE FracDigits(_, _, _)
FracDigits(r, d, k) ==
    IF k = 0 THEN <<>>
    ELSE <<(r * 10) \div d>> \o FracDigits((r * 10) % d, d, k - 1)

\* the remainder left after k digits of r/d
RECURSIVE FracRem(_, _, _)
FracRem(r, d, k) == IF k = 0 THEN r ELSE FracRem((r * 10) % d, d, k - 1)

\* digits + 1 in the last place; carry when every digit was 9
RECURSIVE IncDigits(_)
IncDigits(ds) ==
    IF Len(ds) = 0 THEN [ds |-> <<>>, carry |-> TRUE]
    ELSE LET last == ds[Len(ds)]
             init == SubSeq(ds, 1, Len(ds) - 1)
         IN  IF last < 9
             THEN [ds |-> Append(init, last + 1), carry |-> FALSE]
             ELSE LET r == IncDigits(init)
                  IN  [ds |-> Append(r.ds, 0), carry |-> r.carry]

\* fixed-point formatting with prec fractional digits, round-half-even
FormatFixed(v, prec) ==
    IF IsNaN(v) THEN [k |-> "nan", neg |-> FALSE, ip |-> 0, frac |-> <<>>]
    ELSE LET a   == Abs(v.n)
             ip  == a \div v.d
             ds  == FracDigits(a % v.d, v.d, prec)
             rem == FracRem(a % v.d, v.d, prec)
             odd == IF prec = 0 THEN ip % 2 = 1 ELSE ds[prec] % 2 = 1
             up  == 2 * rem > v.d \/ (2 * rem = v.d /\ odd)
             inc == IncDigits(ds)
         IN  [k    |-> "fixed",
              neg  |-> v.n < 0,
              ip   |-> IF up /\ inc.carry THEN ip + 1 ELSE ip,
              frac |-> IF up THEN inc.ds ELSE ds]

Precision == 12

Format12f(v) == FormatFixed(v, Precision)

---------------------------------------------------------------------------
(* save_open3d_trajectory *)

CommentLine(text, arg) == [kind |-> "comment", text |-> text, arg |-> arg,
                           sep |-> "", vals |-> <<>>]

\* ' '.join(f'{v:.12f}' for v in T.flatten()) + '\n'
DataLine(T) == [kind |-> "data", text |-> "", arg |-> -1, sep |-> " ",
                vals |-> [k \in 1..16 |-> Format12f(Flatten(T)[k])]]

LogHeader(ps) ==
    << CommentLine("# Open3D trajectory log", -1),
       CommentLine("# Number of poses: ", Len(ps)),
       CommentLine("# Format: 4x4 transformation matrix (row-major)", -1),
       CommentLine("#", -1) >>

\* everything save_open3d_trajectory writes for the list ps
LogLines(ps) == LogHeader(ps) \o [k \in 1..Len(ps) |-> DataLine(ps[k].T)]

\* variant: the file is opened in append mode
WriteMode_Append(old, new) == old \o new

\* open(output_file, 'w') and the writes: the old content is discarded
WriteMode(old, new) == new

save_open3d_trajectory(ps, old) ==
    [exists |-> TRUE, lines |-> WriteMode(old.lines, LogLines(ps))]

---------------------------------------------------------------------------
(* save_pose_graph_json *)

Eye6 == [i \in 1..6 |-> [j \in 1..6 |-> IF i = j THEN One ELSE Zero]]

PoseGraphNode(T) ==
    [class_name |-> "PoseGraphNode", version_major |-> 1, version_minor |-> 0,
     pose |-> T]

\* T_rel of the edge leaving node i, given the inverse of T_curr
RelativeTransform(invCurr, T_next) == MatMul(invCurr, T_next)

\* ids of the edge built by loop iteration i (0-based)
EdgeSource(i) == i

EdgeTarget(i) == i + 1

PoseGraphEdge(i, T_rel) ==
    [class_name |-> "PoseGraphEdge", version_major |-> 1, version_minor |-> 0,
     source_node_id |-> EdgeSource(i), target_node_id |-> EdgeTarget(i),
     transformation |-> T_rel, information |-> Eye6, uncertain |-> FALSE]

\* variant: the loop stops one pair early
EdgeCount_DropLast(ps) == IF Len(ps) < 2 THEN 0 ELSE Len(ps) - 2

\* range(len(poses) - 1)
EdgeCount(ps) == IF Len(ps) = 0 THEN 0 ELSE Len(ps) - 1

\* the edge loop from iteration i on: every way it can end, as
\* [err, edges]; err when np.linalg.inv raised
RECURSIVE EdgesFrom(_, _, _)
EdgesFrom(ps, i, acc) ==
    IF i >= EdgeCount(ps) THEN {[err |-> FALSE, edges |-> acc]}
    ELSE UNION { IF r.err
                 THEN {[err |-> TRUE, edges |-> acc]}
                 ELSE EdgesFrom(ps, i + 1,
                        Append(acc, PoseGraphEdge(i,
                                  RelativeTransform(r.M, ps[i + 2].T))))
                 : r \in LinalgInv(ps[i + 1].T) }

\* the pose_graph dict once both loops have run
BuildPoseGraph(ps) ==
    { [err |-> r.err,
       g |-> [class_name |-> "PoseGraph", version_major |-> 1,
              version_minor |-> 0,
              nodes |-> [k \in 1..Len(ps) |-> PoseGraphNode(ps[k].T)],
              edges |-> r.edges]] : r \in EdgesFrom(ps, 0, <<>>) }

EmptyGraph == [class_name |-> "PoseGraph", version_major |-> 1,
               version_minor |-> 0, nodes |-> <<>>, edges |-> <<>>]

---------------------------------------------------------------------------
(* Inputs *)

\* "timestamp tx ty tz qx qy qz qw" with integer fields
PoseLine(ts, tx, ty, tz, qx, qy, qz, qw) ==
    <<N(ts), N(tx), N(ty), N(tz), N(qx), N(qy), N(qz), N(qw)>>

BlankLine == <<>>

\* "# 0 0 0 0 0 0 0 1": a comment with more than 8 fields
HashLine == <<Hash>> \o PoseLine(0, 0, 0, 0, 0, 0, 0, 1)

\* "5 0 0 0 0 0 0": seven numeric fields
ShortLine == <<N(5), N(0), N(0), N(0), N(0), N(0), N(0)>>

\* identity pose at t = 0
IdentityLine == PoseLine(0, 0, 0, 0, 0, 0, 0, 1)

\* translation [1,0,0], identity rotation, t = 1
TransLine == PoseLine(1, 1, 0, 0, 0, 0, 0, 1)

\* the transform of TransLine again, with an unnormalised quaternion and an
\* earlier timestamp
TransEarlyLine == PoseLine(0, 1, 0, 0, 0, 0, 0, 2)

\* quarter turn about z given as the non-unit quaternion (0,0,1,1)
RotLine == PoseLine(2, 0, 1, 0, 0, 0, 1, 1)

\* quaternion (1,1,1,0) of squared norm 3, followed by a ninth, non-numeric
\* field
ExtraFieldLine == PoseLine(3, 0, 0, 2, 1, 1, 1, 0) \o <<Junk>>

\* zero-norm quaternion
ZeroQuatLine == PoseLine(1, 0, 0, 0, 0, 0, 0, 0)

\* non-numeric tz
JunkLine == <<N(1), N(0), N(0), Junk, N(0), N(0), N(0), N(1)>>

\* non-numeric eighth field, '#' inside the line
JunkLastLine == <<N(2), N(0), N(0), N(0), N(0), N(0), N(0), Hash>>

LineSet == {BlankLine, HashLine, ShortLine, IdentityLine, TransLine,
            TransEarlyLine, RotLine, ExtraFieldLine, ZeroQuatLine,
            JunkLine, JunkLastLine}

SeqsUpTo(S, n) == UNION {[1..k -> S] : k \in 0..n}

Inputs == SeqsUpTo(LineSet, MaxLines)

Absent == [exists |-> FALSE, lines |-> <<>>]

\* what an earlier run on a one-pose trajectory left behind
StalePoses == <<LinePose(RotLine)>>

StaleLog == [exists |-> TRUE, lines |-> LogLines(StalePoses)]

StaleJson == [exists |-> TRUE,
              g |-> [EmptyGraph EXCEPT
                       !.nodes = <<PoseGraphNode(StalePoses[1].T)>>]]

AbsentJson == [exists |-> FALSE, g |-> EmptyGraph]

NoStats == [set |-> FALSE, duration |-> Zero, avg_fps |-> Zero]

NoPrev == [set |-> FALSE, poses |-> <<>>, lines |-> <<>>]

---------------------------------------------------------------------------
(* main() of 02_convert_trajectory.py *)

\* an uncaught exception: traceback, exit status 1
Raise(exc) ==
    /\ outcome' = exc
    /\ exitCode' = 1
    /\ cpc' = "exit"

\* variant: the emptiness test never fires
NoPoses_Never(ps) == FALSE

\* len(poses) == 0
NoPoses(ps) == Len(ps) = 0

\* poses = load_tum_trajectory(args.input); open() of a missing input file
\* raises FileNotFoundError
Load ==
    /\ cpc = "load"
    /\ LET r == load_tum_trajectory(tumFile)
       IN  IF ~trajExists
           THEN Raise("FileNotFoundError") /\ UNCHANGED poses
           ELSE IF r.err
           THEN Raise("ValueError") /\ UNCHANGED poses
           ELSE /\ poses' = r.poses
                /\ cpc' = "check"
                /\ UNCHANGED <<outcome, exitCode>>
    /\ UNCHANGED <<tumFile, stats, graph, logFile, jsonFile, logOpened,
                   jsonOpened, serVars, pipeVars, auxVars>>

\* if len(poses) == 0: print("ERROR: ..."); return
CheckEmpty ==
    /\ cpc = "check"
    /\ IF NoPoses(poses)
       THEN /\ outcome' = "EmptyTrajectory"
            /\ exitCode' = 0
            /\ cpc' = "exit"
       ELSE /\ cpc' = "stats"
            /\ UNCHANGED <<outcome, exitCode>>
    /\ UNCHANGED <<tumFile, poses, stats, graph, logFile, jsonFile, logOpened,
                   jsonOpened, serVars, pipeVars, auxVars>>

\* duration = timestamps[-1] - timestamps[0]
Duration(ps) == Sub(ps[Len(ps)].ts, ps[1].ts)

\* variant: the rate counts the intervals between poses, not the poses
AvgFps_Intervals(ps) ==
    IF Duration(ps).n > 0 THEN Div(Num(Len(ps) - 1), Duration(ps)) ELSE Zero

\* avg_fps = len(poses) / duration if duration > 0 else 0
AvgFps(ps) ==
    IF Duration(ps).n > 0 THEN Div(Num(Len(ps)), Duration(ps)) ELSE Zero

\* the statistics block; timestamps[-1] of an empty list is an IndexError
Statistics ==
    /\ cpc = "stats"
    /\ IF Len(poses) = 0
       THEN Raise("IndexError") /\ UNCHANGED stats
       ELSE /\ stats' = [set |-> TRUE, duration |-> Duration(poses),
                         avg_fps |-> AvgFps(poses)]
            /\ cpc' = "save_log"
            /\ UNCHANGED <<outcome, exitCode>>
    /\ UNCHANGED <<tumFile, poses, graph, logFile, jsonFile, logOpened,
                   jsonOpened, serVars, pipeVars, auxVars>>

\* save_open3d_trajectory(poses, args.output_log)
SaveLog ==
    /\ cpc = "save_log"
    /\ logFile' = save_open3d_trajectory(poses, logFile)
    /\ logOpened' = TRUE
    /\ cpc' = "build_graph"
    /\ UNCHANGED <<tumFile, poses, stats, graph, jsonFile, jsonOpened,
                   outcome, exitCode, serVars, pipeVars, auxVars>>

\* open(output_file, 'w') raises OSError: nothing is written
SaveLogFail ==
    /\ cpc = "save_log"
    /\ Raise("OSError")
    /\ UNCHANGED <<tumFile, poses, stats, graph, logFile, jsonFile, logOpened,
                   jsonOpened, serVars, pipeVars, auxVars>>

\* save_pose_graph_json up to the open(): the node loop and the edge loop
BuildGraph ==
    /\ cpc = "build_graph"
    /\ \E r \in BuildPoseGraph(poses) :
          IF r.err
          THEN Raise("LinAlgError") /\ UNCHANGED graph
          ELSE /\ graph' = r.g
               /\ cpc' = "dump_json"
               /\ UNCHANGED <<outcome, exitCode>>
    /\ UNCHANGED <<tumFile, poses, stats, logFile, jsonFile, logOpened,
                   jsonOpened, serVars, pipeVars, auxVars>>

\* with open(output_file, 'w') as f: json.dump(pose_graph, f, indent=2),
\* then main() prints the closing banner and returns
DumpJson ==
    /\ cpc = "dump_json"
    /\ jsonFile' = [exists |-> TRUE, g |-> graph]
    /\ jsonOpened' = TRUE
    /\ outcome' = "ok"
    /\ exitCode' = 0
    /\ cpc' = "exit"
    /\ UNCHANGED <<tumFile, poses, stats, graph, logFile, logOpened,
                   serVars, pipeVars, auxVars>>

\* the open() of the pose-graph file raises OSError
DumpJsonFail ==
    /\ cpc = "dump_json"
    /\ Raise("OSError")
    /\ UNCHANGED <<tumFile, poses, stats, graph, logFile, jsonFile, logOpened,
                   jsonOpened, serVars, pipeVars, auxVars>>

ConvInit ==
    /\ poses = <<>>
    /\ stats = NoStats
    /\ graph = EmptyGraph
    /\ \E stale \in BOOLEAN :
          /\ logFile = IF stale THEN StaleLog ELSE Absent
          /\ jsonFile = IF stale THEN StaleJson ELSE AbsentJson
    /\ logOpened = FALSE
    /\ jsonOpened = FALSE
    /\ outcome = "running"
    /\ exitCode = -1

NoArgs == [extract |-> FALSE, start_step |-> 1]

\* a part of the repository that the specification at hand does not run
Idle == [pc |-> "off"]

AuxOff ==
    /\ association = Idle
    /\ intrinsics = Idle
    /\ logLoad = Idle
    /\ extraction = Idle
    /\ reconstruction = Idle

PipeOff ==
    /\ ppc = "off"
    /\ args = NoArgs
    /\ recon_mode = "mesh"
    /\ framesExist = TRUE
    /\ launched = <<>>
    /\ retcodes = <<>>
    /\ pipeRet = -1

\* the converter run on its own: python scripts/02_convert_trajectory.py
Init ==
    /\ ConvInit
    /\ tumFile \in Inputs
    /\ trajExists = TRUE
    /\ cpc = "load"
    /\ runNo = 1
    /\ prevRun = NoPrev
    /\ PipeOff
    /\ AuxOff

Converter ==
    \/ Load
    \/ CheckEmpty
    \/ Statistics
    \/ SaveLog
    \/ SaveLogFail
    \/ BuildGraph
    \/ DumpJson
    \/ DumpJsonFail

Next == Converter

Spec == Init /\ [][Next]_vars

---------------------------------------------------------------------------
(* Two runs of save_open3d_trajectory on one output path *)

SerPoseSet == {LinePose(IdentityLine), LinePose(TransLine),
               LinePose(TransEarlyLine), LinePose(ZeroQuatLine)}

SerPoses == SeqsUpTo(SerPoseSet, MaxSerPoses)

\* the transform sequence of a pose list, timestamps dropped
Transforms(ps) == [k \in 1..Len(ps) |-> ps[k].T]

\* a further call of the serializer on the same path with another list
Rerun ==
    /\ cpc = "build_graph"
    /\ runNo < MaxRuns
    /\ prevRun' = [set |-> TRUE, poses |-> poses, lines |-> logFile.lines]
    /\ poses' \in SerPoses
    /\ runNo' = runNo + 1
    /\ logOpened' = FALSE
    /\ cpc' = "save_log"
    /\ UNCHANGED <<tumFile, stats, graph, logFile, jsonFile, jsonOpened,
                   outcome, exitCode, pipeVars, auxVars>>

InitSer ==
    /\ tumFile = <<>>
    /\ trajExists = TRUE
    /\ cpc = "save_log"
    /\ poses \in SerPoses
    /\ stats = NoStats
    /\ graph = EmptyGraph
    /\ logFile \in {Absent, StaleLog}
    /\ jsonFile = AbsentJson
    /\ logOpened = FALSE
    /\ jsonOpened = FALSE
    /\ outcome = "running"
    /\ exitCode = -1
    /\ runNo = 1
    /\ prevRun = NoPrev
    /\ PipeOff
    /\ AuxOff

NextSer ==
    \/ SaveLog
    \/ SaveLogFail
    \/ Rerun

SpecSer == InitSer /\ [][NextSer]_vars

---------------------------------------------------------------------------
(* main() of bin/run_pipeline.py *)

\* result.returncode of a launched command
ReturnCodes == {0, 1}

\* variant: run_command reports success whatever the return code
RunOK_Always(rc) == TRUE

\* run_command: True iff the command's return code is 0
RunOK(rc) == rc = 0

\* return 1 / return 0 of main()
Return(v) ==
    /\ pipeRet' = v
    /\ ppc' = "done"

\* the exit status the converter process ends with becomes the return code
\* that step 3's run_command sees
ConverterReturnCode == exitCode

\* variant: a step runs only when start_step is strictly below its number
StepSelected_Strict(n) == args.start_step < n

\* if args.start_step <= n
StepSelected(n) == args.start_step <= n

\* run_command(cmd, ...): the command is launched and returns rc
RunCommand(name, rc) ==
    /\ launched' = Append(launched, name)
    /\ retcodes' = Append(retcodes, rc)

\* Step 0: if args.extract: if args.start_step <= 0: run 00_extract_frames.py,
\* which creates the frames directory
Step0 ==
    /\ ppc = "step0"
    /\ IF args.extract /\ StepSelected(0)
       THEN \E rc \in ReturnCodes :
               /\ RunCommand("0", rc)
               /\ framesExist' = TRUE
               /\ IF RunOK(rc)
                  THEN ppc' = "frames_check" /\ UNCHANGED pipeRet
                  ELSE Return(1)
       ELSE /\ ppc' = "frames_check"
            /\ UNCHANGED <<launched, retcodes, framesExist, pipeRet>>
    /\ UNCHANGED <<convVars, serVars, auxVars, args, recon_mode, trajExists>>

\* if not os.path.exists(frames_dir): return 1
FramesCheck ==
    /\ ppc = "frames_check"
    /\ IF framesExist
       THEN ppc' = "step1" /\ UNCHANGED pipeRet
       ELSE Return(1)
    /\ UNCHANGED <<convVars, serVars, auxVars, args, recon_mode, framesExist,
                   trajExists, launched, retcodes>>

\* Step 1: create_associations.py
Step1 ==
    /\ ppc = "step1"
    /\ IF StepSelected(1)
       THEN \E rc \in ReturnCodes :
               /\ RunCommand("1", rc)
               /\ IF RunOK(rc)
                  THEN ppc' = "step2" /\ UNCHANGED pipeRet
                  ELSE Return(1)
       ELSE /\ ppc' = "step2"
            /\ UNCHANGED <<launched, retcodes, pipeRet>>
    /\ UNCHANGED <<convVars, serVars, auxVars, args, recon_mode, framesExist,
                   trajExists>>

\* Step 2: 01_run_orbslam3.sh, then the check that CameraTrajectory.txt
\* exists; the tracker may or may not have written it
Step2 ==
    /\ ppc = "step2"
    /\ IF StepSelected(2)
       THEN \E rc \in ReturnCodes, wrote \in BOOLEAN :
               /\ RunCommand("2", rc)
               /\ trajExists' = (trajExists \/ wrote)
               /\ IF RunOK(rc) /\ trajExists'
                  THEN ppc' = "step3" /\ UNCHANGED pipeRet
                  ELSE Return(1)
       ELSE /\ ppc' = "step3"
            /\ UNCHANGED <<launched, retcodes, trajExists, pipeRet>>
    /\ UNCHANGED <<convVars, serVars, auxVars, args, recon_mode, framesExist>>

\* Step 3: run_command launches 02_convert_trajectory.py
Step3Launch ==
    /\ ppc = "step3"
    /\ StepSelected(3)
    /\ launched' = Append(launched, "3")
    /\ cpc' = "load"
    /\ ppc' = "step3_wait"
    /\ UNCHANGED <<tumFile, poses, stats, graph, logFile, jsonFile, logOpened,
                   jsonOpened, outcome, exitCode, serVars, auxVars, args,
                   recon_mode, framesExist, trajExists, retcodes, pipeRet>>

Step3Skip ==
    /\ ppc = "step3"
    /\ ~StepSelected(3)
    /\ ppc' = "step4a"
    /\ UNCHANGED <<convVars, serVars, auxVars, args, recon_mode, framesExist,
                   trajExists, launched, retcodes, pipeRet>>

\* subprocess.run returns: if not run_command(...): return 1
Step3Return ==
    /\ ppc = "step3_wait"
    /\ cpc = "exit"
    /\ retcodes' = Append(retcodes, ConverterReturnCode)
    /\ IF RunOK(ConverterReturnCode)
       THEN ppc' = "step4a" /\ UNCHANGED pipeRet
       ELSE Return(1)
    /\ UNCHANGED <<convVars, serVars, auxVars, args, recon_mode, framesExist,
                   trajExists, launched>>

\* Step 4, mesh: 03_dense_reconstruction.py
Step4a ==
    /\ ppc = "step4a"
    /\ IF StepSelected(4) /\ recon_mode \in {"mesh", "both"}
       THEN \E rc \in ReturnCodes :
               /\ RunCommand("4a", rc)
               /\ IF RunOK(rc)
                  THEN ppc' = "step4b" /\ UNCHANGED pipeRet
                  ELSE Return(1)
       ELSE /\ ppc' = "step4b"
            /\ UNCHANGED <<launched, retcodes, pipeRet>>
    /\ UNCHANGED <<convVars, serVars, auxVars, args, recon_mode, framesExist,
                   trajExists>>

\* Step 4, point clouds: 04_export_point_clouds.py; then "PIPELINE COMPLETE"
\* and return 0
Step4b ==
    /\ ppc = "step4b"
    /\ IF StepSelected(4) /\ recon_mode \in {"pointcloud", "both"}
       THEN \E rc \in ReturnCodes :
               /\ RunCommand("4b", rc)
               /\ IF RunOK(rc) THEN Return(0) ELSE Return(1)
       ELSE /\ Return(0)
            /\ UNCHANGED <<launched, retcodes>>
    /\ UNCHANGED <<convVars, serVars, auxVars, args, recon_mode, framesExist,
                   trajExists>>

PipeLineSet == {HashLine, IdentityLine, ZeroQuatLine, JunkLine}

PipeInputs == SeqsUpTo(PipeLineSet, MaxPipeLines)

StartSteps == 0..5

\* "other": any mode string that is none of the three the code tests for
ReconModes == {"mesh", "pointcloud", "both", "other"}

InitPipe ==
    /\ tumFile \in PipeInputs
    /\ cpc = "idle"
    /\ poses = <<>>
    /\ stats = NoStats
    /\ graph = EmptyGraph
    /\ logFile = Absent
    /\ jsonFile = AbsentJson
    /\ logOpened = FALSE
    /\ jsonOpened = FALSE
    /\ outcome = "running"
    /\ exitCode = -1
    /\ runNo = 1
    /\ prevRun = NoPrev
    /\ ppc = "step0"
    /\ args \in [extract : BOOLEAN, start_step : StartSteps]
    /\ recon_mode \in ReconModes
    /\ framesExist \in BOOLEAN
    /\ trajExists \in BOOLEAN
    /\ launched = <<>>
    /\ retcodes = <<>>
    /\ pipeRet = -1
    /\ AuxOff

Pipeline ==
    \/ Step0
    \/ FramesCheck
    \/ Step1
    \/ Step2
    \/ Step3Launch
    \/ Step3Skip
    \/ Step3Return
    \/ Step4a
    \/ Step4b

NextPipe == Pipeline \/ Converter

SpecPipe == InitPipe /\ [][NextPipe]_vars

---------------------------------------------------------------------------
(* Properties of the converter *)

\* the output files are as they were before the run
OutputsUntouched ==
    /\ ~logOpened
    /\ ~jsonOpened
    /\ logFile \in {Absent, StaleLog}
    /\ jsonFile \in {AbsentJson, StaleJson}

Max(a, b) == IF a >= b THEN a ELSE b

\* C1: an emitted pose graph has one node per pose, node k holding the k-th
\* pose, and max(N-1, 0) edges, the i-th edge (from 0) joining node i to
\* node i+1.
C1_ChainGraph ==
    jsonOpened =>
        LET g == jsonFile.g
            n == Len(poses)
        IN  /\ n >= 1
            /\ Len(g.nodes) = n
            /\ \A k \in 1..n : g.nodes[k].pose = poses[k].T
            /\ Len(g.edges) = Max(n - 1, 0)
            /\ \A i \in 1..Len(g.edges) :
                  /\ g.edges[i].source_node_id = i - 1
                  /\ g.edges[i].target_node_id = i
                  /\ g.edges[i].target_node_id < n

C1_Witness ==
    /\ jsonOpened
    /\ Len(poses) = 3
    /\ Len(jsonFile.g.edges) = 2

\* C2: for every pair of consecutive poses the emitted edge satisfies
\* pose[i] . edge[i].transformation = pose[i+1]; with identity rotations on
\* both sides the edge is the pure translation t[i+1] - t[i].
C2_EdgeReproducesNext ==
    jsonOpened =>
        \A i \in 1..(Len(poses) - 1) :
            /\ i <= Len(jsonFile.g.edges)
            /\ MatEq(MatMul(poses[i].T, jsonFile.g.edges[i].transformation),
                     poses[i + 1].T)

\* the rotation block of M is the identity
IdentityRotation(M) ==
    \A i \in 1..3, j \in 1..3 : NumEq(M[i][j], Eye4[i][j])

\* C2, for finite poses only (what the code does satisfy): the composition
\* law, and the pure-translation case.
C2_FiniteEdgeReproducesNext ==
    jsonOpened =>
        \A i \in 1..(Len(poses) - 1) :
            (~HasNaN(poses[i].T) /\ ~HasNaN(poses[i + 1].T)) =>
                LET E == jsonFile.g.edges[i].transformation
                IN  /\ MatEq(MatMul(poses[i].T, E), poses[i + 1].T)
                    /\ (IdentityRotation(poses[i].T)
                          /\ IdentityRotation(poses[i + 1].T)) =>
                         /\ IdentityRotation(E)
                         /\ \A r \in 1..3 :
                               NumEq(E[r][4], Sub(poses[i + 1].T[r][4],
                                                  poses[i].T[r][4]))
                         /\ \A c \in 1..4 : NumEq(E[4][c], Eye4[4][c])

\* a line is blank or a comment
CommentOrBlank(line) == Len(line) = 0 \/ line[1].k = "hash"

\* C3: an input of only comment and blank lines ends the run as
\* EmptyTrajectory, and neither output file is created or written.
C3_EmptyTrajectory ==
    (\A k \in 1..Len(tumFile) : CommentOrBlank(tumFile[k])) =>
        /\ cpc \in {"load", "check", "exit"}
        /\ OutputsUntouched
        /\ cpc = "exit" => outcome = "EmptyTrajectory"

C3_Witness ==
    /\ Len(tumFile) = 2
    /\ tumFile[1] = HashLine
    /\ tumFile[2] = BlankLine
    /\ cpc = "exit"
    /\ outcome = "EmptyTrajectory"
    /\ logFile = StaleLog

\* an unskipped line whose quaternion fields are all zero
ZeroQuatPoseLine(line) ==
    /\ ~CommentOrBlank(line)
    /\ Len(line) >= 8
    /\ \A k \in 5..8 : line[k].k = "num" /\ line[k].v = 0

\* C4: when an input pose line has a zero-norm quaternion the run aborts with
\* DegenerateQuaternion before either output file is written, and no pose
\* with an undefined rotation reaches the serializers.
C4_DegenerateQuaternionAborts ==
    (\E k \in 1..Len(tumFile) : ZeroQuatPoseLine(tumFile[k])) =>
        /\ ~logOpened
        /\ ~jsonOpened
        /\ outcome # "ok"
        /\ cpc \in {"save_log", "build_graph", "dump_json"} =>
              \A k \in 1..Len(poses) : ~HasNaN(poses[k].T)

\* a pose line of at least 8 fields with a non-numeric field among the first 8
Malformed(line) ==
    /\ ~CommentOrBlank(line)
    /\ Len(line) >= 8
    /\ \E k \in 1..8 : line[k].k # "num"

\* C5: once the input is loaded, the run has failed with ValueError
\* (MalformedRecord) iff some pose line of at least 8 fields has an
\* unparsable field among its first 8; on that failure no pose list exists
\* and neither output file is written.
C5_MalformedRecord ==
    cpc # "load" =>
        /\ (outcome = "ValueError") <=>
              (\E k \in 1..Len(tumFile) : Malformed(tumFile[k]))
        /\ outcome = "ValueError" =>
              /\ cpc = "exit"
              /\ exitCode = 1
              /\ poses = <<>>
              /\ OutputsUntouched

C5_Witness ==
    /\ Len(tumFile) = 3
    /\ tumFile[1] = IdentityLine
    /\ tumFile[2] = ExtraFieldLine
    /\ tumFile[3] = JunkLastLine
    /\ outcome = "ValueError"
    /\ cpc = "exit"

\* the in-memory pose graph with every edge has been built
GraphConstructed ==
    /\ Len(poses) >= 1
    /\ Len(graph.nodes) = Len(poses)
    /\ Len(graph.edges) = Len(poses) - 1

\* C6: no output file is opened for writing before the whole transform
\* sequence, the edges' relative transforms included, is constructed; a run
\* never ends with one output file written and the other not.
C6_OutputsAfterConstruction ==
    /\ (logOpened \/ jsonOpened) => GraphConstructed
    /\ cpc = "exit" => (logOpened <=> jsonOpened)

\* the lines load_tum_trajectory keeps, in file order
KeptLines(lines) ==
    SelectSeq(lines, LAMBDA l : ~CommentOrBlank(l) /\ Len(l) >= 8)

\* C7: a successful load returns exactly one pose per line that is not
\* blank, not a comment and has at least 8 fields, in file order: pose k
\* carries the timestamp and translation of the k-th such line.
C7_LoadKeepsFileOrder ==
    (cpc \notin {"load"} /\ outcome # "ValueError") =>
        LET kept == KeptLines(tumFile)
        IN  /\ Len(poses) = Len(kept)
            /\ \A k \in 1..Len(poses) :
                  /\ poses[k].ts = Num(kept[k][1].v)
                  /\ \A r \in 1..3 : poses[k].T[r][4] = Num(kept[k][r + 1].v)

C7_Witness ==
    /\ cpc = "check"
    /\ Len(tumFile) = 3
    /\ tumFile[1] = ExtraFieldLine
    /\ tumFile[2] = ShortLine
    /\ tumFile[3] = IdentityLine
    /\ Len(poses) = 2
    /\ poses[1].ts.n > poses[2].ts.n

\* the formatted token is v in fixed notation with 12 fractional digits
Fixed12Of(tok, v) ==
    /\ tok.k = "fixed"
    /\ Len(tok.frac) = 12
    /\ \A j \in 1..12 : tok.frac[j] \in 0..9
    /\ ~IsNaN(v)
    /\ tok.neg = (v.n < 0)
    /\ tok.ip = Abs(v.n) \div v.d
    /\ tok.frac[1] = ((Abs(v.n) % v.d) * 10) \div v.d

\* the four comment lines and the line count of a log of n poses
LogHeaderOK(ls, n) ==
    /\ Len(ls) = 4 + n
    /\ \A h \in 1..4 : ls[h].kind = "comment"
    /\ ls[1].text = "# Open3D trajectory log"
    /\ ls[2].text = "# Number of poses: "
    /\ ls[2].arg = Len(ls) - 4
    /\ ls[3].text = "# Format: 4x4 transformation matrix (row-major)"
    /\ ls[4].text = "#"

\* the data line holds the 16 entries of T, row-major, 12 fractional digits
LogDataLineOK(line, T) ==
    /\ line.kind = "data"
    /\ line.sep = " "
    /\ Len(line.vals) = 16
    /\ \A r \in 1..4, c \in 1..4 : Fixed12Of(line.vals[4 * (r - 1) + c], T[r][c])

\* C9: the log holds the 4 comment header lines, then one data line per pose
\* in input order with the 16 row-major entries in fixed notation with 12
\* fractional digits, single-space separated; the header's count is the
\* number of data lines.
C9_LogLayout ==
    logOpened =>
        /\ LogHeaderOK(logFile.lines, Len(poses))
        /\ \A k \in 1..Len(poses) :
              LogDataLineOK(logFile.lines[4 + k], poses[k].T)

\* C9, for finite poses only (what the code does satisfy)
C9_FiniteLogLayout ==
    logOpened =>
        /\ LogHeaderOK(logFile.lines, Len(poses))
        /\ \A k \in 1..Len(poses) :
              ~HasNaN(poses[k].T) =>
                  LogDataLineOK(logFile.lines[4 + k], poses[k].T)

\* C8: after a failed conversion (MalformedRecord, DegenerateQuaternion,
\* SingularTransform, EmptyTrajectory) the converter has exit status 1,
\* run_pipeline returns 1, and step 4 is never launched.
C8_FailureStopsPipeline ==
    (/\ cpc = "exit"
     /\ \/ outcome \in {"ValueError", "LinAlgError", "EmptyTrajectory"}
        \/ \E k \in 1..Len(poses) : HasNaN(poses[k].T)) =>
        /\ exitCode = 1
        /\ \A i \in 1..Len(launched) : launched[i] \notin {"4a", "4b"}
        /\ ppc = "done" => pipeRet = 1

\* C10: two runs of save_open3d_trajectory on the same transform sequence
\* leave byte-identical files, whatever the timestamps and whatever the
\* file held before.
C10_SerializerDeterministic ==
    (/\ cpc = "build_graph"
     /\ prevRun.set
     /\ Transforms(poses) = Transforms(prevRun.poses)) =>
        logFile.lines = prevRun.lines

C10_Witness ==
    /\ cpc = "build_graph"
    /\ runNo = 2
    /\ prevRun.set
    /\ Len(poses) = 2
    /\ Transforms(poses) = Transforms(prevRun.poses)
    /\ poses # prevRun.poses
    /\ logFile.lines = prevRun.lines

\* C11: for a non-empty pose sequence the statistics are duration = last
\* timestamp - first timestamp and average rate = pose count / duration when
\* duration > 0, else 0 (poses at t=0 and t=1 give duration 1 and rate 2);
\* computing them changes neither the pose sequence nor either output file.
C11_Statistics ==
    /\ [](stats.set =>
            LET n == Len(poses)
                d == Sub(poses[n].ts, poses[1].ts)
            IN  /\ n >= 1
                /\ stats.duration = d
                /\ (d.n > 0 => Mul(stats.avg_fps, d) = Num(n))
                /\ (d.n <= 0 => stats.avg_fps = Zero)
                /\ (tumFile = <<IdentityLine, TransLine>> =>
                       stats.duration = One /\ stats.avg_fps = Num(2)))
    /\ [][cpc = "stats" =>
            /\ poses' = poses
            /\ logFile' = logFile
            /\ jsonFile' = jsonFile]_vars

C11_Witness ==
    /\ stats.set
    /\ tumFile = <<IdentityLine, TransLine>>
    /\ stats.duration = One
    /\ stats.avg_fps = Num(2)

\* -------- quaternion conversion on its own --------

QuatBound == 2

QuatComponents == (0 - QuatBound)..QuatBound

QuatTranslations == {<<0, 0, 0>>, <<1, 2, 3>>, <<0 - 3, 0, 2>>}

QuatLines ==
    {PoseLine(0, t[1], t[2], t[3], qx, qy, qz, qw) :
        t \in QuatTranslations, qx \in QuatComponents, qy \in QuatComponents,
        qz \in QuatComponents, qw \in QuatComponents}

\* load_tum_trajectory applied to a one-line file with an arbitrary
\* quaternion, followed by the emptiness check of main
InitQuat ==
    /\ poses = <<>>
    /\ stats = NoStats
    /\ graph = EmptyGraph
    /\ logFile = Absent
    /\ jsonFile = AbsentJson
    /\ logOpened = FALSE
    /\ jsonOpened = FALSE
    /\ outcome = "running"
    /\ exitCode = -1
    /\ \E l \in QuatLines : tumFile = <<l>>
    /\ trajExists = TRUE
    /\ cpc = "load"
    /\ runNo = 1
    /\ prevRun = NoPrev
    /\ PipeOff
    /\ AuxOff

NextQuat ==
    \/ Load
    \/ CheckEmpty

SpecQuat == InitQuat /\ [][NextQuat]_vars

Transpose3(R) == [i \in 1..3 |-> [j \in 1..3 |-> R[j][i]]]

MatMul3(A, B) ==
    [i \in 1..3 |-> [j \in 1..3 |->
        Add(Add(Mul(A[i][1], B[1][j]), Mul(A[i][2], B[2][j])),
            Mul(A[i][3], B[3][j]))]]

Rotation3(T) == [i \in 1..3 |-> [j \in 1..3 |-> T[i][j]]]

Norm2(line) ==
    line[5].v * line[5].v + line[6].v * line[6].v
        + line[7].v * line[7].v + line[8].v * line[8].v

\* C12: for every quaternion of non-zero norm the rotation block R of the
\* loaded pose is orthonormal (R.R^T = I, det R = +1), the translation column
\* is (tx, ty, tz) and the bottom row is [0, 0, 0, 1].
C12_RotationOrthonormal ==
    (cpc # "load" /\ outcome # "ValueError") =>
        LET kept == KeptLines(tumFile)
        IN  \A k \in 1..Len(poses) :
               Norm2(kept[k]) # 0 =>
                  LET T == poses[k].T
                      R == Rotation3(T)
                      P == MatMul3(R, Transpose3(R))
                  IN  /\ \A i \in 1..3, j \in 1..3 : P[i][j] = Eye4[i][j]
                      /\ Det3(R) = One
                      /\ \A r \in 1..3 : T[r][4] = Num(kept[k][r + 1].v)
                      /\ T[4] = <<Zero, Zero, Zero, One>>

\* a loaded pose whose quaternion is neither a unit quaternion nor axis
\* aligned
C12_Witness ==
    /\ cpc = "check"
    /\ Len(poses) = 1
    /\ tumFile[1] = PoseLine(0, 1, 2, 3, 1, 0 - 2, 2, 1)

\* -------- what a failed conversion run shows the user --------

\* no record index is shown
NoIndex == 0 - 1

\* the function named by the innermost frame of the traceback of an uncaught
\* exception, or main for the "ERROR: No poses found" message
FailedStage ==
    CASE outcome \in {"ValueError", "FileNotFoundError"} -> "load_tum_trajectory"
      [] outcome \in {"EmptyTrajectory", "IndexError"} -> "main"
      [] outcome = "LinAlgError" -> "save_pose_graph_json"
      [] outcome = "OSError" ->
            IF logOpened THEN "save_pose_graph_json"
            ELSE "save_open3d_trajectory"
      [] OTHER -> "none"

\* the report of a run: load_tum_trajectory keeps no line counter and wraps
\* float() in no handler, so the ValueError text holds the offending token
\* only; the ERROR message of main is a fixed string
Report == [stage |-> FailedStage, index |-> NoIndex]

\* C13: when a conversion run fails, the user-visible report identifies the
\* stage that failed and, for a failure on a record, the index of the
\* offending record in the raw trajectory file.
C13_ReportLocatesRecord ==
    (cpc = "exit" /\ outcome # "ok") =>
        /\ Report.stage # "none"
        /\ outcome = "ValueError" =>
              Report.index = load_tum_trajectory(tumFile).at

\* C14: when run_pipeline is invoked with --extract, frame extraction (step 0)
\* is launched first, before the frames-directory check and before any of
\* steps 1-4, whatever the value of --start_step.
C14_ExtractRunsFirst ==
    (args.extract /\ ppc \notin {"off", "step0"}) =>
        /\ launched # <<>>
        /\ launched[1] = "0"

\* the step number a launched command belongs to
StepNumber(name) ==
    CASE name = "0" -> 0
      [] name = "1" -> 1
      [] name = "2" -> 2
      [] name = "3" -> 3
      [] OTHER -> 4

\* the commands of steps 1-4 in the order main reaches them
StepOrder == <<"1", "2", "3", "4a", "4b">>

\* the commands main launches from start_step on when none of them fails:
\* step 4 runs the mesh script for mode mesh/both and the point-cloud script
\* for mode pointcloud/both
SelectedCommands ==
    SelectSeq(StepOrder, LAMBDA c :
        /\ StepNumber(c) >= args.start_step
        /\ c = "4a" => recon_mode \in {"mesh", "both"}
        /\ c = "4b" => recon_mode \in {"pointcloud", "both"})

IsPrefix(s, t) == Len(s) <= Len(t) /\ \A i \in 1..Len(s) : s[i] = t[i]

CommandOrder == <<"0", "1", "2", "3", "4a", "4b">>

\* the position of a command in CommandOrder
CommandIndex(name) == CHOOSE i \in 1..Len(CommandOrder) : CommandOrder[i] = name

MaxStem == 1

\* a directory entry NNNNNN.ext: the frame index it was saved under and its
\* extension
ColorDirNames == [stem : 0..MaxStem, ext : {"jpg", "png", "txt"}]

DepthDirNames == [stem : 0..MaxStem, ext : {"png", "txt"}]

\* f.endswith('.jpg') or f.endswith('.png')
IsColorFile(f) == f.ext \in {"jpg", "png"}

\* f.endswith('.png')
IsDepthFile(f) == f.ext = "png"

ExtRank(e) == CASE e = "jpg" -> 1 [] e = "png" -> 2 [] OTHER -> 3

\* string order of two zero-padded names of equal width
NameLeq(f, g) ==
    \/ f.stem < g.stem
    \/ f.stem = g.stem /\ ExtRank(f.ext) <= ExtRank(g.ext)

\* sorted(...)
RECURSIVE Sorted(_)
Sorted(S) ==
    IF S = {} THEN <<>>
    ELSE LET m == CHOOSE x \in S : \A y \in S : NameLeq(x, y)
         IN  <<m>> \o Sorted(S \ {m})

Min(a, b) == IF a <= b THEN a ELSE b

\* variant: the first line carries the timestamp of the second frame
Timestamp_OneBased(i) == Frac(i + 1, 30)

\* timestamp = float(i) / 30.0
Timestamp(i) == Frac(i, 30)

\* f"{timestamp:.6f} color/{color_files[i]} {timestamp:.6f} depth/{depth_files[i]}\n"
AssociationLine(i, cf, df) ==
    [ts_color |-> FormatFixed(Timestamp(i), 6),
     color    |-> cf[i + 1],
     ts_depth |-> FormatFixed(Timestamp(i), 6),
     depth    |-> df[i + 1]]

NoFile == [exists |-> FALSE, lines |-> <<>>]

\* the converter is not part of the run
ConvOff ==
    /\ tumFile = <<>>
    /\ trajExists = FALSE
    /\ cpc = "idle"
    /\ poses = <<>>
    /\ stats = NoStats
    /\ graph = EmptyGraph
    /\ logFile = Absent
    /\ jsonFile = AbsentJson
    /\ logOpened = FALSE
    /\ jsonOpened = FALSE
    /\ outcome = "running"
    /\ exitCode = -1
    /\ runNo = 1
    /\ prevRun = NoPrev

InitAssoc ==
    /\ ConvOff
    /\ PipeOff
    /\ intrinsics = Idle
    /\ logLoad = Idle
    /\ extraction = Idle
    /\ reconstruction = Idle
    /\ \E cd \in SUBSET ColorDirNames, dd \in SUBSET DepthDirNames,
          ok \in BOOLEAN :
          /\ ~ok => (cd = {} /\ dd = {})
          /\ association =
                [pc |-> "list", dirsExist |-> ok, colorDir |-> cd,
                 depthDir |-> dd, color_files |-> <<>>, depth_files |-> <<>>,
                 n_frames |-> 0, i |-> 0, out |-> NoFile]

AssocUnchanged ==
    UNCHANGED <<convVars, serVars, pipeVars, intrinsics, logLoad, extraction,
                reconstruction>>

\* the two listings, n_frames and open(output_file, 'w')
AssocList ==
    /\ association.pc = "list"
    /\ association.dirsExist
    /\ LET cf == Sorted({f \in association.colorDir : IsColorFile(f)})
           df == Sorted({f \in association.depthDir : IsDepthFile(f)})
       IN  association' =
              [association EXCEPT !.pc = "write", !.color_files = cf,
                                  !.depth_files = df,
                                  !.n_frames = Min(Len(cf), Len(df)),
                                  !.out = [exists |-> TRUE, lines |-> <<>>]]
    /\ AssocUnchanged

\* os.listdir of a missing color/ or depth/ directory raises
AssocListFail ==
    /\ association.pc = "list"
    /\ ~association.dirsExist
    /\ association' = [association EXCEPT !.pc = "failed"]
    /\ AssocUnchanged

\* one iteration of for i in range(n_frames)
AssocWrite ==
    /\ association.pc = "write"
    /\ association.i < association.n_frames
    /\ association' =
          [association EXCEPT
              !.out.lines = Append(@, AssociationLine(association.i,
                                association.color_files,
                                association.depth_files)),
              !.i = @ + 1]
    /\ AssocUnchanged

\* the loop is exhausted and the file is closed
AssocClose ==
    /\ association.pc = "write"
    /\ association.i = association.n_frames
    /\ association' = [association EXCEPT !.pc = "done"]
    /\ AssocUnchanged

NextAssoc ==
    \/ AssocList
    \/ AssocListFail
    \/ AssocWrite
    \/ AssocClose

SpecAssoc == InitAssoc /\ [][NextAssoc]_vars

\* the value of a formatted number in units of 10^-Len(frac)
RECURSIVE DigitsValue(_)
DigitsValue(ds) ==
    IF Len(ds) = 0 THEN 0
    ELSE 10 * DigitsValue(SubSeq(ds, 1, Len(ds) - 1)) + ds[Len(ds)]

FixedMicros(f) == f.ip * 1000000 + DigitsValue(f.frac)

\* the k-th smallest element of a set of names
RECURSIVE KthName(_, _)
KthName(S, k) ==
    LET m == CHOOSE x \in S : \A y \in S : NameLeq(x, y)
    IN  IF k = 1 THEN m ELSE KthName(S \ {m}, k - 1)

\* C16: create_associations writes exactly min(#color files, #depth files)
\* lines; line i pairs the i-th sorted color file with the i-th sorted depth
\* file, both with the timestamp i/30 to six decimals, so timestamps strictly
\* increase in line order and no file beyond index min-1 is referenced.
C16_Associations ==
    association.pc \in {"write", "done"} =>
        LET cs    == {f \in association.colorDir : f.ext \in {"jpg", "png"}}
            ds    == {f \in association.depthDir : f.ext = "png"}
            n     == Min(Cardinality(cs), Cardinality(ds))
            lines == association.out.lines
        IN  /\ Len(lines) <= n
            /\ association.pc = "done" => Len(lines) = n
            /\ \A k \in 1..Len(lines) :
                  /\ lines[k].color = KthName(cs, k)
                  /\ lines[k].depth = KthName(ds, k)
                  /\ lines[k].ts_color = lines[k].ts_depth
                  /\ lines[k].ts_color.k = "fixed"
                  /\ ~lines[k].ts_color.neg
                  /\ Len(lines[k].ts_color.frac) = 6
                  /\ LET us == FixedMicros(lines[k].ts_color)
                     IN  /\ 2 * (30 * us - (k - 1) * 1000000) <= 30
                         /\ 2 * ((k - 1) * 1000000 - 30 * us) <= 30
                  /\ k > 1 => FixedMicros(lines[k - 1].ts_color)
                                 < FixedMicros(lines[k].ts_color)

\* more color files than depth files, a stray .txt, and two lines written
C16_Witness ==
    /\ association.pc = "done"
    /\ Len(association.out.lines) = 2
    /\ Len(association.color_files) > 2
    /\ \E f \in association.depthDir : f.ext = "txt"
    /\ association.out.lines[2].ts_color.frac = <<0, 3, 3, 3, 3, 3>>

\* -------- intrinsic.json: written by extraction, read by both loaders --------

MaxIntr == 2

\* the camera parameters the device reports; the principal point may be 0
Cameras ==
    [fx : 1..MaxIntr, fy : 1..MaxIntr, ppx : 0..MaxIntr, ppy : 0..MaxIntr,
     width : {4}, height : {3}, depth_scale : {Frac(1, 1000)}]

\* the 3x3 pinhole camera matrix of a camera
CameraMatrix(c) ==
    << <<Num(c.fx), Zero, Num(c.ppx)>>,
       <<Zero, Num(c.fy), Num(c.ppy)>>,
       <<Zero, Zero, One>> >>

\* json.dump writes a float as its shortest repr; json.load reads it back
JsonNumber(v) == <<"number", v.n, v.d>>

JsonValue(t) == Frac(t[2], t[3])

\* "intrinsic_matrix": [fx, 0.0, 0.0, 0.0, fy, 0.0, ppx, ppy, 1.0]
IntrinsicList(c) ==
    <<Num(c.fx), Zero, Zero, Zero, Num(c.fy), Zero, Num(c.ppx), Num(c.ppy),
      One>>

\* intrinsic_data as json.dump writes it
IntrinsicData(c) ==
    [width            |-> JsonNumber(Num(c.width)),
     height           |-> JsonNumber(Num(c.height)),
     intrinsic_matrix |-> [k \in 1..9 |-> JsonNumber(IntrinsicList(c)[k])],
     depth_scale      |-> JsonNumber(Div(One, c.depth_scale))]

\* variant: the loader reads cx, cy at the row-major positions 2 and 5
load_intrinsic_RowMajor(data) ==
    [width  |-> JsonValue(data.width),
     height |-> JsonValue(data.height),
     fx     |-> JsonValue(data.intrinsic_matrix[1]),
     fy     |-> JsonValue(data.intrinsic_matrix[5]),
     cx     |-> JsonValue(data.intrinsic_matrix[3]),
     cy     |-> JsonValue(data.intrinsic_matrix[6]),
     depth_scale |-> JsonValue(data.depth_scale)]

\* 03_dense_reconstruction.py: fx, fy, cx, cy = intrinsic_matrix[0], [4], [6],
\* [7] (0-based), and depth_scale
load_intrinsic(data) ==
    [width  |-> JsonValue(data.width),
     height |-> JsonValue(data.height),
     fx     |-> JsonValue(data.intrinsic_matrix[1]),
     fy     |-> JsonValue(data.intrinsic_matrix[5]),
     cx     |-> JsonValue(data.intrinsic_matrix[7]),
     cy     |-> JsonValue(data.intrinsic_matrix[8]),
     depth_scale |-> JsonValue(data.depth_scale)]

\* 04_export_point_clouds.py: the same positions, no depth_scale
load_intrinsics(data) ==
    [width  |-> JsonValue(data.width),
     height |-> JsonValue(data.height),
     fx     |-> JsonValue(data.intrinsic_matrix[1]),
     fy     |-> JsonValue(data.intrinsic_matrix[5]),
     cx     |-> JsonValue(data.intrinsic_matrix[7]),
     cy     |-> JsonValue(data.intrinsic_matrix[8])]

NotLoaded == [loaded |-> FALSE]

InitIntr ==
    /\ ConvOff
    /\ PipeOff
    /\ association = Idle
    /\ logLoad = Idle
    /\ extraction = Idle
    /\ reconstruction = Idle
    /\ \E c \in Cameras :
          intrinsics = [pc |-> "extract", cam |-> c, file |-> NotLoaded,
                        dense |-> NotLoaded, export |-> NotLoaded]

IntrUnchanged ==
    UNCHANGED <<convVars, serVars, pipeVars, association, logLoad, extraction,
                reconstruction>>

\* json.dump(intrinsic_data, f, indent=2)
IntrSave ==
    /\ intrinsics.pc = "extract"
    /\ intrinsics' = [intrinsics EXCEPT !.pc = "saved",
                                        !.file = IntrinsicData(intrinsics.cam)]
    /\ IntrUnchanged

\* step 4, mesh: load_intrinsic(intrinsic_file)
IntrLoadDense ==
    /\ intrinsics.pc = "saved"
    /\ intrinsics.dense = NotLoaded
    /\ intrinsics' = [intrinsics EXCEPT !.dense = load_intrinsic(intrinsics.file)]
    /\ IntrUnchanged

\* step 4, point clouds: load_intrinsics(intrinsic_file)
IntrLoadExport ==
    /\ intrinsics.pc = "saved"
    /\ intrinsics.export = NotLoaded
    /\ intrinsics' = [intrinsics EXCEPT !.export = load_intrinsics(intrinsics.file)]
    /\ IntrUnchanged

NextIntr ==
    \/ IntrSave
    \/ IntrLoadDense
    \/ IntrLoadExport

SpecIntr == InitIntr /\ [][NextIntr]_vars

RowMajor3(M) == [k \in 1..9 |-> M[((k - 1) \div 3) + 1][((k - 1) % 3) + 1]]

ColumnMajor3(M) == [k \in 1..9 |-> M[((k - 1) % 3) + 1][((k - 1) \div 3) + 1]]

WrittenMatrix == [k \in 1..9 |-> JsonValue(intrinsics.file.intrinsic_matrix[k])]

RoundTrip(l) ==
    l # NotLoaded =>
        /\ l.fx = Num(intrinsics.cam.fx)
        /\ l.fy = Num(intrinsics.cam.fy)
        /\ l.cx = Num(intrinsics.cam.ppx)
        /\ l.cy = Num(intrinsics.cam.ppy)

\* C17 as stated: the written intrinsic_matrix is the row-major flattening
\* of the 3x3 camera matrix, and both loaders return the original fx, fy,
\* cx, cy.
C17_RowMajorRoundTrip ==
    intrinsics.pc = "saved" =>
        /\ WrittenMatrix = RowMajor3(CameraMatrix(intrinsics.cam))
        /\ RoundTrip(intrinsics.dense)
        /\ RoundTrip(intrinsics.export)

\* C17, amended: the written intrinsic_matrix is the column-major flattening
\* of the 3x3 camera matrix (fx at 0, fy at 4, cx at 6, cy at 7), and both
\* loaders read these positions, so the round trip returns the original fx,
\* fy, cx, cy.
C17_ColumnMajorRoundTrip ==
    intrinsics.pc = "saved" =>
        /\ WrittenMatrix = ColumnMajor3(CameraMatrix(intrinsics.cam))
        /\ RoundTrip(intrinsics.dense)
        /\ RoundTrip(intrinsics.export)

\* both loaders have read a file whose principal point is off-centre and
\* differs from the focal lengths
C17_Witness ==
    /\ intrinsics.pc = "saved"
    /\ intrinsics.dense # NotLoaded
    /\ intrinsics.export # NotLoaded
    /\ intrinsics.cam.fx = 2
    /\ intrinsics.cam.fy = 1
    /\ intrinsics.cam.ppx = 1
    /\ intrinsics.cam.ppy = 2

\* -------- the two loaders of the trajectory log --------

MaxLogLines == 2

\* a data line of the log: the 16 row-major entries of a pose translated by
\* a along x
LogPoseLine(a) ==
    <<N(1), N(0), N(0), N(a), N(0), N(1), N(0), N(0),
      N(0), N(0), N(1), N(0), N(0), N(0), N(0), N(1)>>

\* 16 fields, the fourth is not a number
JunkLogLine == [LogPoseLine(0) EXCEPT ![4] = Junk]

\* 15 numeric fields
ShortLogLine == SubSeq(LogPoseLine(0), 1, 15)

\* 3 fields, one of them not a number
ShortJunkLogLine == <<N(0), Junk, N(0)>>

\* "# Open3D trajectory log"
LogCommentLine == <<Hash>>

LogLineSet ==
    {LogPoseLine(1), LogPoseLine(2), JunkLogLine, ShortLogLine,
     ShortJunkLogLine, LogCommentLine, BlankLine}

LogFiles == SeqsUpTo(LogLineSet, MaxLogLines)

\* not line or line.startswith('#')
SkipLogLine(line) == Len(line) = 0 \/ line[1].k = "hash"

\* [float(x) for x in line.split()] raises ValueError
FloatsRaise(line) == \E k \in 1..Len(line) : ~FloatOK(line[k])

\* np.array(values).reshape(4, 4)
Reshape44(line) ==
    [i \in Idx4 |-> [j \in Idx4 |-> Num(line[4 * (i - 1) + j].v)]]

\* 03_dense_reconstruction.py: float() is not guarded, so a ValueError
\* leaves the function
RECURSIVE LoadLogFrom(_, _, _)
LoadLogFrom(lines, k, acc) ==
    IF k > Len(lines) THEN [err |-> FALSE, poses |-> acc]
    ELSE IF SkipLogLine(lines[k]) THEN LoadLogFrom(lines, k + 1, acc)
    ELSE IF FloatsRaise(lines[k]) THEN [err |-> TRUE, poses |-> <<>>]
    ELSE IF Len(lines[k]) = 16
    THEN LoadLogFrom(lines, k + 1, Append(acc, Reshape44(lines[k])))
    ELSE LoadLogFrom(lines, k + 1, acc)

load_trajectory_log(lines) == LoadLogFrom(lines, 1, <<>>)

\* 04_export_point_clouds.py: except ValueError: continue
RECURSIVE LoadTrajFrom(_, _, _)
LoadTrajFrom(lines, k, acc) ==
    IF k > Len(lines) THEN [err |-> FALSE, poses |-> acc]
    ELSE IF SkipLogLine(lines[k]) THEN LoadTrajFrom(lines, k + 1, acc)
    ELSE IF FloatsRaise(lines[k]) THEN LoadTrajFrom(lines, k + 1, acc)
    ELSE IF Len(lines[k]) = 16
    THEN LoadTrajFrom(lines, k + 1, Append(acc, Reshape44(lines[k])))
    ELSE LoadTrajFrom(lines, k + 1, acc)

load_trajectory(lines) == LoadTrajFrom(lines, 1, <<>>)

NotRun == [ran |-> FALSE]

InitLoad ==
    /\ ConvOff
    /\ PipeOff
    /\ association = Idle
    /\ intrinsics = Idle
    /\ extraction = Idle
    /\ reconstruction = Idle
    /\ \E f \in LogFiles :
          logLoad = [pc |-> "step4", file |-> f, dense |-> NotRun,
                     export |-> NotRun]

LoadUnchanged ==
    UNCHANGED <<convVars, serVars, pipeVars, association, intrinsics,
                extraction, reconstruction>>

\* poses = load_trajectory_log(args.trajectory)
LoadDense ==
    /\ logLoad.pc = "step4"
    /\ logLoad.dense = NotRun
    /\ logLoad' = [logLoad EXCEPT
                      !.dense = [ran |-> TRUE,
                                 r |-> load_trajectory_log(logLoad.file)]]
    /\ LoadUnchanged

\* poses = load_trajectory(trajectory_file)
LoadExport ==
    /\ logLoad.pc = "step4"
    /\ logLoad.export = NotRun
    /\ logLoad' = [logLoad EXCEPT
                      !.export = [ran |-> TRUE,
                                  r |-> load_trajectory(logLoad.file)]]
    /\ LoadUnchanged

NextLoad ==
    \/ LoadDense
    \/ LoadExport

SpecLoad == InitLoad /\ [][NextLoad]_vars

\* C18: the pose-line loaders apply one uniform policy to a non-comment line
\* with a field that cannot be parsed as a number; in particular the two
\* trajectory-log loaders give the same outcome (same pose sequence, or both
\* fail) on every log file.
C18_UniformLoaderPolicy ==
    (logLoad.pc = "step4" /\ logLoad.dense # NotRun /\ logLoad.export # NotRun)
        => logLoad.dense.r = logLoad.export.r

\* -------- 00_extract_frames.py: the extraction loop --------

MaxBag == 3

MaxStride == 2

MaxFramesArg == 2

\* a frameset of the bag: which of its two frames are present
FrameSets == {[color |-> TRUE, depth |-> TRUE],
              [color |-> TRUE, depth |-> FALSE],
              [color |-> FALSE, depth |-> TRUE]}

\* the framesets wait_for_frames delivers inside the loop
Bags == SeqsUpTo(FrameSets, MaxBag)

\* cv2.imwrite: the file is written, or False is returned with no file, or
\* cv2.error is raised
WriteOutcomes == {"written", "false", "raised"}

InitExtract ==
    /\ ConvOff
    /\ PipeOff
    /\ association = Idle
    /\ intrinsics = Idle
    /\ logLoad = Idle
    /\ reconstruction = Idle
    /\ \E b \in Bags, st \in 0..MaxStride, mf \in 0..MaxFramesArg :
          extraction =
             [pc |-> "loop", bag |-> b, pos |-> 1, frame_stride |-> st,
              max_frames |-> mf, frame_count |-> 0, saved_count |-> 0,
              colorFiles |-> {}, depthFiles |-> {}, savedAt |-> <<>>,
              writeFailed |-> FALSE]

ExtractUnchanged ==
    UNCHANGED <<convVars, serVars, pipeVars, association, intrinsics, logLoad,
                reconstruction>>

\* max_frames > 0 and saved_count >= max_frames
LimitReached(e) == e.max_frames > 0 /\ e.saved_count >= e.max_frames

\* if max_frames > 0 and saved_count >= max_frames: break
ExtractLimit ==
    /\ extraction.pc = "loop"
    /\ LimitReached(extraction)
    /\ extraction' = [extraction EXCEPT !.pc = "done"]
    /\ ExtractUnchanged

\* wait_for_frames raises RuntimeError at the end of the bag: break
ExtractEnd ==
    /\ extraction.pc = "loop"
    /\ ~LimitReached(extraction)
    /\ extraction.pos > Len(extraction.bag)
    /\ extraction' = [extraction EXCEPT !.pc = "done"]
    /\ ExtractUnchanged

\* frame_count % 0 raises ZeroDivisionError, caught by except Exception
ExtractStrideError ==
    /\ extraction.pc = "loop"
    /\ ~LimitReached(extraction)
    /\ extraction.pos <= Len(extraction.bag)
    /\ extraction.frame_stride = 0
    /\ extraction' = [extraction EXCEPT !.pc = "done", !.pos = @ + 1]
    /\ ExtractUnchanged

\* the frameset is off the stride, or one of its frames is missing:
\* frame_count += 1; continue
ExtractSkip ==
    /\ extraction.pc = "loop"
    /\ ~LimitReached(extraction)
    /\ extraction.pos <= Len(extraction.bag)
    /\ extraction.frame_stride > 0
    /\ LET fs == extraction.bag[extraction.pos]
       IN  \/ extraction.frame_count % extraction.frame_stride # 0
           \/ ~fs.color
           \/ ~fs.depth
    /\ extraction' = [extraction EXCEPT !.pos = @ + 1, !.frame_count = @ + 1]
    /\ ExtractUnchanged

\* the two cv2.imwrite calls under the index saved_count, whose results are
\* not looked at, then saved_count += 1; frame_count += 1; an exception of
\* either call ends the loop
ExtractSave ==
    /\ extraction.pc = "loop"
    /\ ~LimitReached(extraction)
    /\ extraction.pos <= Len(extraction.bag)
    /\ extraction.frame_stride > 0
    /\ extraction.frame_count % extraction.frame_stride = 0
    /\ extraction.bag[extraction.pos].color
    /\ extraction.bag[extraction.pos].depth
    /\ \E cw \in WriteOutcomes, dw \in WriteOutcomes :
          LET k  == extraction.saved_count
              cf == IF cw = "written" THEN extraction.colorFiles \cup {k}
                    ELSE extraction.colorFiles
              df == IF cw # "raised" /\ dw = "written"
                    THEN extraction.depthFiles \cup {k}
                    ELSE extraction.depthFiles
              raised == cw = "raised" \/ dw = "raised"
          IN  extraction' =
                 [extraction EXCEPT
                     !.pos = @ + 1,
                     !.colorFiles = cf,
                     !.depthFiles = df,
                     !.writeFailed = @ \/ cw # "written" \/ dw # "written",
                     !.pc = IF raised THEN "done" ELSE "loop",
                     !.saved_count = IF raised THEN @ ELSE @ + 1,
                     !.frame_count = IF raised THEN @ ELSE @ + 1,
                     !.savedAt = IF raised THEN @
                                 ELSE Append(@, extraction.frame_count)]
    /\ ExtractUnchanged

NextExtract ==
    \/ ExtractLimit
    \/ ExtractEnd
    \/ ExtractStrideError
    \/ ExtractSkip
    \/ ExtractSave

SpecExtract == InitExtract /\ [][NextExtract]_vars

\* never more than max_frames pairs; only frames on the stride are saved
ExtractionCounts ==
    /\ extraction.max_frames > 0 =>
          /\ extraction.saved_count <= extraction.max_frames
          /\ Cardinality(extraction.colorFiles) <= extraction.max_frames
          /\ Cardinality(extraction.depthFiles) <= extraction.max_frames
    /\ Len(extraction.savedAt) = extraction.saved_count
    /\ \A i \in 1..Len(extraction.savedAt) :
          /\ extraction.frame_stride > 0
          /\ extraction.savedAt[i] % extraction.frame_stride = 0

\* the color and depth index sets are both {0, ..., saved_count-1}
ExtractionIndexSets ==
    /\ extraction.colorFiles = 0..(extraction.saved_count - 1)
    /\ extraction.depthFiles = 0..(extraction.saved_count - 1)

\* C19: with max_frames > 0 never more than max_frames pairs are saved, and
\* after any number of loop iterations the saved color and depth files have
\* the same index set, exactly {0, ..., saved_count-1}, with only frames
\* whose frame_count is a multiple of frame_stride saved.
C19_ExtractionInvariant ==
    extraction.pc \in {"loop", "done"} =>
        /\ ExtractionCounts
        /\ ExtractionIndexSets

\* C19 holds as long as every cv2.imwrite call wrote its file
C19_HoldsWhenWritesSucceed ==
    (extraction.pc \in {"loop", "done"} /\ ~extraction.writeFailed) =>
        /\ ExtractionCounts
        /\ ExtractionIndexSets

\* the counts and the stride hold whatever cv2.imwrite does
C19_CountsAlways ==
    extraction.pc \in {"loop", "done"} => ExtractionCounts

\* -------- step 4: 03_dense_reconstruction.py and 04_export_point_clouds.py --------

MaxReconPoses == 3

\* 16 zeros: a pose np.linalg.inv cannot invert
SingularLogLine == [k \in 1..16 |-> N(0)]

\* the k-th line of a log is a pose translated by k, a singular matrix, a
\* line of 15 fields or a line with an unparsable field
ReconLogLines(k) ==
    {LogPoseLine(k), SingularLogLine, ShortLogLine, JunkLogLine}

ReconLogs ==
    UNION {{f \in [1..n -> UNION {ReconLogLines(k) : k \in 1..n}] :
               \A k \in 1..n : f[k] \in ReconLogLines(k)} :
           n \in 0..MaxReconPoses}

FramesNamed(stems, ext) == {[stem |-> s, ext |-> ext] : s \in stems}

\* color/ directories: jpg frames, one of them with a png frame and a stray
\* text file
ReconColorDirs ==
    {FramesNamed({}, "jpg"), FramesNamed({0, 1}, "jpg"),
     FramesNamed({0, 1, 2}, "jpg"),
     FramesNamed({0, 2}, "jpg") \cup FramesNamed({1}, "png")
        \cup FramesNamed({0}, "txt"),
     FramesNamed({0, 1, 2, 3}, "jpg")}

\* depth/ directories: png frames, possibly with a gap or a stray file
ReconDepthDirs ==
    {FramesNamed({}, "png"), FramesNamed({0}, "png"),
     FramesNamed({0, 1, 2}, "png"),
     FramesNamed({1, 2, 3}, "png") \cup FramesNamed({0}, "txt"),
     FramesNamed({0, 1, 2, 3}, "png")}

\* --frame_skip
FrameSkips == {0 - 1, 0, 1, 2}

NotStarted ==
    [status |-> "idle", poses |-> <<>>, color_files |-> <<>>,
     depth_files |-> <<>>, n_frames |-> 0, i |-> 0, frames |-> <<>>]

InitRecon ==
    /\ ConvOff
    /\ PipeOff
    /\ association = Idle
    /\ intrinsics = Idle
    /\ logLoad = Idle
    /\ extraction = Idle
    /\ \E lg \in ReconLogs, cd \in ReconColorDirs, dd \in ReconDepthDirs,
          sk \in FrameSkips :
          reconstruction =
             [pc |-> "mesh_start", log |-> lg, colorDir |-> cd,
              depthDir |-> dd, frame_skip |-> sk, mesh |-> NotStarted,
              cloud |-> NotStarted]

ReconUnchanged ==
    UNCHANGED <<convVars, serVars, pipeVars, association, intrinsics, logLoad,
                extraction>>

\* get_rgbd_file_lists / the two sorted listings of export_point_clouds
ColorFiles(dir) == Sorted({f \in dir : IsColorFile(f)})

DepthFiles(dir) == Sorted({f \in dir : IsDepthFile(f)})

\* variant: the last matched frame is left out
FrameCount_DropLast(cf, df, ps) ==
    Max(Min(Min(Len(cf), Len(df)), Len(ps)) - 1, 0)

\* n_frames = min(len(color_files), len(depth_files), len(poses))
FrameCount(cf, df, ps) == Min(Min(Len(cf), Len(df)), Len(ps))

\* 03 main: poses = load_trajectory_log(...); integrate_rgbd_frames up to the
\* loop.  A ValueError of the loader ends the script.
MeshStart ==
    /\ reconstruction.pc = "mesh_start"
    /\ LET r  == load_trajectory_log(reconstruction.log)
           cf == ColorFiles(reconstruction.colorDir)
           df == DepthFiles(reconstruction.depthDir)
       IN  IF r.err
           THEN reconstruction' =
                   [reconstruction EXCEPT !.pc = "cloud_start",
                                          !.mesh.status = "ValueError"]
           ELSE reconstruction' =
                   [reconstruction EXCEPT
                       !.pc = "mesh_loop",
                       !.mesh = [status |-> "running", poses |-> r.poses,
                                 color_files |-> cf, depth_files |-> df,
                                 n_frames |-> FrameCount(cf, df, r.poses),
                                 i |-> 0, frames |-> <<>>]]
    /\ ReconUnchanged

\* one iteration of for i in range(n_frames): read color_files[i] and
\* depth_files[i], extrinsic = np.linalg.inv(poses[i]), volume.integrate
MeshIntegrate ==
    /\ reconstruction.pc = "mesh_loop"
    /\ reconstruction.mesh.i < reconstruction.mesh.n_frames
    /\ LET m == reconstruction.mesh
           i == m.i
       IN  \E inv \in LinalgInv(m.poses[i + 1]) :
              IF inv.err
              THEN reconstruction' =
                      [reconstruction EXCEPT !.pc = "cloud_start",
                                             !.mesh.status = "LinAlgError"]
              ELSE reconstruction' =
                      [reconstruction EXCEPT
                          !.mesh.frames =
                              Append(@, [i |-> i,
                                         color |-> m.color_files[i + 1],
                                         depth |-> m.depth_files[i + 1],
                                         pose |-> m.poses[i + 1],
                                         extrinsic |-> inv.M]),
                          !.mesh.i = @ + 1]
    /\ ReconUnchanged

\* range(n_frames) is exhausted: "Integration complete"
MeshDone ==
    /\ reconstruction.pc = "mesh_loop"
    /\ reconstruction.mesh.i = reconstruction.mesh.n_frames
    /\ reconstruction' = [reconstruction EXCEPT !.pc = "cloud_start",
                                                !.mesh.status = "done"]
    /\ ReconUnchanged

\* export_point_clouds up to the loop: load_trajectory, the return on an
\* empty pose list, the listings, n_frames, the return on n_frames == 0;
\* range(0, n_frames, 0) raises ValueError
CloudStart ==
    /\ reconstruction.pc = "cloud_start"
    /\ LET ps == load_trajectory(reconstruction.log).poses
           cf == ColorFiles(reconstruction.colorDir)
           df == DepthFiles(reconstruction.depthDir)
           n  == FrameCount(cf, df, ps)
           st == IF Len(ps) = 0 THEN "NoPoses"
                 ELSE IF n = 0 THEN "NoFrames"
                 ELSE IF reconstruction.frame_skip = 0 THEN "ValueError"
                 ELSE "running"
       IN  reconstruction' =
              [reconstruction EXCEPT
                  !.pc = IF st = "running" THEN "cloud_loop" ELSE "done",
                  !.cloud = [status |-> st, poses |-> ps,
                             color_files |-> IF Len(ps) = 0 THEN <<>> ELSE cf,
                             depth_files |-> IF Len(ps) = 0 THEN <<>> ELSE df,
                             n_frames |-> IF Len(ps) = 0 THEN 0 ELSE n,
                             i |-> 0, frames |-> <<>>]]
    /\ ReconUnchanged

\* one iteration of for i in range(0, n_frames, frame_skip): the point cloud
\* of color_files[i] and depth_files[i], transformed by poses[i]
CloudFrame ==
    /\ reconstruction.pc = "cloud_loop"
    /\ reconstruction.frame_skip > 0
    /\ reconstruction.cloud.i < reconstruction.cloud.n_frames
    /\ LET c == reconstruction.cloud
           i == c.i
       IN  reconstruction' =
              [reconstruction EXCEPT
                  !.cloud.frames =
                      Append(@, [i |-> i,
                                 color |-> c.color_files[i + 1],
                                 depth |-> c.depth_files[i + 1],
                                 pose |-> c.poses[i + 1]]),
                  !.cloud.i = @ + reconstruction.frame_skip]
    /\ ReconUnchanged

\* the range is exhausted (at once for a negative step)
CloudDone ==
    /\ reconstruction.pc = "cloud_loop"
    /\ \/ reconstruction.frame_skip < 0
       \/ reconstruction.cloud.i >= reconstruction.cloud.n_frames
    /\ reconstruction' = [reconstruction EXCEPT !.pc = "done",
                                                !.cloud.status = "done"]
    /\ ReconUnchanged

NextRecon ==
    \/ MeshStart
    \/ MeshIntegrate
    \/ MeshDone
    \/ CloudStart
    \/ CloudFrame
    \/ CloudDone

SpecRecon == InitRecon /\ [][NextRecon]_vars

\* the poses of a log: one per line of 16 numeric fields, in file order
LogPoses(log) ==
    LET kept == SelectSeq(log, LAMBDA l :
                    Len(l) = 16 /\ \A k \in 1..16 : l[k].k = "num")
    IN  [k \in 1..Len(kept) |-> Reshape44(kept[k])]

ReconColorSet == {f \in reconstruction.colorDir : f.ext \in {"jpg", "png"}}

ReconDepthSet == {f \in reconstruction.depthDir : f.ext = "png"}

\* n = min(#color files, #depth files, #poses)
ReconN ==
    Min(Min(Cardinality(ReconColorSet), Cardinality(ReconDepthSet)),
        Len(LogPoses(reconstruction.log)))

\* a processed frame pairs the i-th sorted color file, the i-th sorted depth
\* file and the i-th pose, with i < n
PairedByIndex(fr) ==
    /\ fr.i >= 0
    /\ fr.i < ReconN
    /\ fr.color = KthName(ReconColorSet, fr.i + 1)
    /\ fr.depth = KthName(ReconDepthSet, fr.i + 1)
    /\ fr.pose = LogPoses(reconstruction.log)[fr.i + 1]

MeshPairing ==
    \A k \in 1..Len(reconstruction.mesh.frames) :
        /\ reconstruction.mesh.frames[k].i = k - 1
        /\ PairedByIndex(reconstruction.mesh.frames[k])

CloudPairing ==
    /\ \A k \in 1..Len(reconstruction.cloud.frames) :
          /\ reconstruction.cloud.frames[k].i
                = (k - 1) * reconstruction.frame_skip
          /\ PairedByIndex(reconstruction.cloud.frames[k])
    /\ (reconstruction.cloud.status = "done"
           /\ reconstruction.frame_skip >= 1) =>
          {reconstruction.cloud.frames[k].i :
              k \in 1..Len(reconstruction.cloud.frames)}
             = {i \in 0..(ReconN - 1) : i % reconstruction.frame_skip = 0}

MeshOver == reconstruction.pc \in {"cloud_start", "cloud_loop", "done"}

============================================================================
